---- MODULE Spec2Model ----
(***************************************************************************)
(* A model of MaterializeMySQLSyncThread (ClickHouse, MaterializeMySQL):   *)
(* the background thread that dumps a MySQL database into ClickHouse and   *)
(* then follows its binary log, translating row events into sign/version   *)
(* encoded rows that are buffered and flushed together with the binlog     *)
(* position.                                                               *)
(*                                                                         *)
(* The specifications share the state:                                     *)
(*   Spec          the sync thread: prepare, the read / onEvent / flush    *)
(*                 loop, DDL execution, failures, crashes and restarts;    *)
(*   SpecLoop      one run of the thread, with DDL of another schema;      *)
(*   SpecRows      the event translator alone (onEvent on row events),     *)
(*                 fed with a richer alphabet of row events;               *)
(*   SpecReplay    the translator with commits and a lost position commit; *)
(*   SpecStop      prepareSynchronized step by step, the sync loop and     *)
(*                 stopSynchronization;                                    *)
(*   SpecPreflight checkVariableAndGetVersion.                             *)
(***************************************************************************)
EXTENDS Integers, Sequences, FiniteSets, TLC

VARIABLES
    binlog,       \* the source's binary log after the snapshot point, as delivered by the client
    src_init,     \* contents of the source tables at the snapshot point (binlog position 0)
    persisted,    \* the .metadata file: [exists, pos, version]
    store,        \* rows visible in the target store: set of [table, k, v, sign, version, pos]
    store_ddl,    \* binlog positions of the Query events whose DDL the target store has executed
    pc,           \* position of the sync thread
    metadata,     \* the MaterializeMetadata object of the running thread: [pos, version]
    client_pos,   \* MySQLClient: position after the last event read
    event,        \* binlog_event of the current loop iteration (NoEvent when none)
    buffers,      \* the Buffers object of the running thread
    elapsed,      \* watch.elapsedMilliseconds()
    exception,    \* the exception recorded on the database handle ("" when none)
    session,      \* number of times the sync thread has been restarted
    sync_quit,    \* the cancellation flag set by stopSynchronization
    prep,         \* prepareSynchronized: its locals and a record of what it has done
    preflight,    \* checkVariableAndGetVersion: the server it asks, and its result
    hist          \* history (ghost) variables used only to state properties

vars == <<binlog, src_init, persisted, store, store_ddl, pc, metadata, client_pos,
          event, buffers, elapsed, exception, session, sync_quit, prep, preflight, hist>>

----------------------------------------------------------------------------
(* Bounds and data domains *)

\* longest binary log the sync thread specification reads
MaxEvents == 3
\* longest binary log the translator specification reads
MaxRowEvents == 3
\* number of restarts of the sync thread after a crash or an error exit
MaxRestarts == 1

\* sorting-key values; three keys let one Update event move a row off a key
\* and another row onto it
Keys == {1, 2, 3}
\* values of the non-key column
Vals == {1, 2}
\* the materialized tables
Tables == {"t1"}
\* a source row is the tuple <<k, v>>; column 1 is the sorting key
Row(k, v) == <<k, v>>
NoEvent == [type |-> "None", table |-> "", rows |-> <<>>, valid |-> TRUE]

Max(a, b) == IF a >= b THEN a ELSE b
Range(s) == {s[i] : i \in DOMAIN s}

----------------------------------------------------------------------------
(* Columns and blocks.  A block holds the user columns (cols), then the    *)
(* sign and version columns.  Both user columns are UInt16 columns.        *)

\* static_cast<UInt16>(value.get<UInt64>())
ToUInt16(x) == x % 65536

\* byte widths of the column types
UInt16Width == 2
SignWidth == 1
VersionWidth == 8

\* metadata.getSampleBlock(): the empty block of a table
SampleBlock == [cols |-> <<(<<>>), (<<>>)>>, sign |-> <<>>, version |-> <<>>]

\* buffer.columns() - 2
UserColumns(block) == Len(block.cols)
\* Block::rows(): the size of the first column
BlockRows(block) == Len(block.cols[1])
\* Block::bytes(): the sum of the columns' byte sizes
RECURSIVE SumLen(_, _)
SumLen(cols, n) == IF n = 0 THEN 0 ELSE Len(cols[n]) + SumLen(cols, n - 1)
BlockBytes(block) ==
    SumLen(block.cols, Len(block.cols)) * UInt16Width
        + Len(block.sign) * SignWidth + Len(block.version) * VersionWidth

\* fill_size copies of a value
Repeat(x, n) == [i \in 1..n |-> x]

\* faulty variant: the sign and the version are appended once per event, not once per row
fillSignAndVersionOnce(data, sign_value, version_value, fill_size) ==
    [data EXCEPT !.sign = Append(@, sign_value), !.version = Append(@, version_value)]

fillSignAndVersionColumnsData(data, sign_value, version_value, fill_size) ==
    [data EXCEPT !.sign = @ \o Repeat(sign_value, fill_size),
                 !.version = @ \o Repeat(version_value, fill_size)]

\* the values writeFieldsToColumn inserts: field column_index of every row whose
\* mask bit is set (every row when the mask is empty), converted to the column type
RECURSIVE WrittenFields(_, _, _, _)
WrittenFields(rows_data, column_index, mask, index) ==
    IF index > Len(rows_data) THEN <<>>
    ELSE (IF mask # <<>> /\ ~mask[index]
             THEN <<>>
             ELSE <<ToUInt16(rows_data[index][column_index])>>)
         \o WrittenFields(rows_data, column_index, mask, index + 1)

writeFieldsToColumn(column_to, rows_data, column_index, mask) ==
    column_to \o WrittenFields(rows_data, column_index, mask, 1)

onWriteOrDeleteData(sign, rows_data, buffer, version) ==
    LET written == [buffer EXCEPT !.cols =
                       [column \in 1..UserColumns(buffer) |->
                           writeFieldsToColumn(buffer.cols[column], rows_data, column, <<>>)]]
    IN fillSignAndVersionColumnsData(written, sign, version, Len(rows_data))

\* faulty variant: every column is compared, not only the sorting-key columns
differenceAnyColumn(row_old_data, row_new_data, sorting_columns_index) ==
    row_old_data # row_new_data

differenceSortingKeys(row_old_data, row_new_data, sorting_columns_index) ==
    \E i \in DOMAIN sorting_columns_index :
        row_old_data[sorting_columns_index[i]] # row_new_data[sorting_columns_index[i]]

\* writeable_rows_mask of onUpdateData: post-images always, pre-images when the
\* sorting key differs
writeableRowsMask(rows_data, sorting_columns_index) ==
    [index \in 1..Len(rows_data) |->
        IF index % 2 = 0 THEN TRUE
        ELSE differenceSortingKeys(rows_data[index], rows_data[index + 1],
                                   sorting_columns_index)]

\* faulty variant: the post-image's +1 is appended before the pre-image's -1
RECURSIVE UpdateSignsSwapped(_, _)
UpdateSignsSwapped(mask, index) ==
    IF index > Len(mask) THEN <<>>
    ELSE (IF ~mask[index] THEN <<1>> ELSE <<1, -1>>) \o UpdateSignsSwapped(mask, index + 2)

\* the sign column entries onUpdateData appends, pair by pair
RECURSIVE UpdateSigns(_, _)
UpdateSigns(mask, index) ==
    IF index > Len(mask) THEN <<>>
    ELSE (IF ~mask[index] THEN <<1>> ELSE <<-1, 1>>) \o UpdateSigns(mask, index + 2)

\* onUpdateData on an even number of rows (an odd number throws, see UpdateThrows)
onUpdateData(rows_data, buffer, version, sorting_columns_index) ==
    LET mask == writeableRowsMask(rows_data, sorting_columns_index)
        written == [buffer EXCEPT !.cols =
                       [column \in 1..UserColumns(buffer) |->
                           writeFieldsToColumn(buffer.cols[column], rows_data, column, mask)]]
        signs == UpdateSigns(mask, 1)
    IN [written EXCEPT !.sign = @ \o signs,
                       !.version = @ \o Repeat(version, Len(signs))]

\* rows_data.size() % 2 != 0: LOGICAL ERROR
UpdateThrows(rows_data) == Len(rows_data) % 2 # 0

----------------------------------------------------------------------------
(* The Buffers object: data maps a table name to its buffer, a block with  *)
(* the indexes of the sorting-key columns.  origin is a history field: the *)
(* binlog position of the event that produced each buffered row.           *)

EmptyBuffers ==
    [data |-> <<>>, max_block_rows |-> 0, max_block_bytes |-> 0,
     total_blocks_rows |-> 0, total_blocks_bytes |-> 0]

\* metadata.getColumnsRequiredForSortingKey(), as positions in the sample block
SortingColumnsIndex(table_name) == <<1>>

\* Buffers::getTableDataBuffer: the buffer of the table, created when missing
getTableDataBuffer(bufs, table_name) ==
    IF table_name \in DOMAIN bufs.data
    THEN bufs
    ELSE [bufs EXCEPT !.data =
             (table_name :> [block |-> SampleBlock,
                             sorting |-> SortingColumnsIndex(table_name),
                             origin |-> <<>>]) @@ @]

\* Buffers::add
add(bufs, block_rows, block_bytes, written_rows, written_bytes) ==
    [bufs EXCEPT !.total_blocks_rows = @ + written_rows,
                 !.total_blocks_bytes = @ + written_bytes,
                 !.max_block_rows = Max(block_rows, @),
                 !.max_block_bytes = Max(block_bytes, @)]

\* faulty variant: a threshold asks for a flush only once it is exceeded
checkThresholdsStrict(bufs, check_block_rows, check_block_bytes, check_total_rows, check_total_bytes) ==
    \/ bufs.max_block_rows > check_block_rows
    \/ bufs.max_block_bytes > check_block_bytes
    \/ bufs.total_blocks_rows > check_total_rows
    \/ bufs.total_blocks_bytes > check_total_bytes

\* Buffers::checkThresholds
checkThresholds(bufs, check_block_rows, check_block_bytes, check_total_rows, check_total_bytes) ==
    \/ bufs.max_block_rows >= check_block_rows
    \/ bufs.max_block_bytes >= check_block_bytes
    \/ bufs.total_blocks_rows >= check_total_rows
    \/ bufs.total_blocks_bytes >= check_total_bytes

\* the rows an insert of a buffer makes visible, in block order
BufferRows(table_name, buf) ==
    [i \in 1..BlockRows(buf.block) |->
        [table |-> table_name, k |-> buf.block.cols[1][i], v |-> buf.block.cols[2][i],
         sign |-> buf.block.sign[i], version |-> buf.block.version[i],
         pos |-> buf.origin[i]]]

\* the rows of all buffers, table after table
RECURSIVE AllBufferRows(_, _)
AllBufferRows(data, tables) ==
    IF tables = {} THEN <<>>
    ELSE LET t == CHOOSE x \in tables : TRUE
         IN BufferRows(t, data[t]) \o AllBufferRows(data, tables \ {t})

\* faulty variant: the counters are reset, data.clear() is forgotten
commitKeepsData(bufs) ==
    [bufs EXCEPT !.max_block_rows = 0, !.max_block_bytes = 0,
                 !.total_blocks_rows = 0, !.total_blocks_bytes = 0]

\* Buffers::commit when every insert succeeds: the rows written, the buffers after
commitRows(bufs) == AllBufferRows(bufs.data, DOMAIN bufs.data)
commitOk(bufs) ==
    [data |-> <<>>, max_block_rows |-> 0, max_block_bytes |-> 0,
     total_blocks_rows |-> 0, total_blocks_bytes |-> 0]
\* Buffers::commit when an insert throws: only the data is cleared
commitFailed(bufs) == [bufs EXCEPT !.data = <<>>]

----------------------------------------------------------------------------
(* onEvent on a row event: the version is pre-incremented once per event   *)

\* faulty variant: the increment is lost
SameVersion(version) == version
\* faulty variant: metadata.version++, the rows get the version before the increment
PostIncrementedVersion(version) == version

\* ++metadata.version
NextVersion(version) == version + 1
\* the version passed to onWriteOrDeleteData / onUpdateData
EventVersion(version) == NextVersion(version)

\* faulty variant: a Delete event is translated with the sign of a Write event
TranslatedBlockDeleteAsWrite(e, buf, version) ==
    IF e.type \in {"Write", "Delete"} THEN onWriteOrDeleteData(1, e.rows, buf.block, version)
    ELSE onUpdateData(e.rows, buf.block, version, buf.sorting)

\* the block of the table's buffer after the event's rows are written
TranslatedBlock(e, buf, version) ==
    IF e.type = "Write" THEN onWriteOrDeleteData(1, e.rows, buf.block, version)
    ELSE IF e.type = "Delete" THEN onWriteOrDeleteData(-1, e.rows, buf.block, version)
    ELSE onUpdateData(e.rows, buf.block, version, buf.sorting)

\* onEvent for MYSQL_WRITE_ROWS_EVENT, MYSQL_UPDATE_ROWS_EVENT, MYSQL_DELETE_ROWS_EVENT:
\* the Buffers object after the event read at position pos
onRowEvent(bufs, e, version, pos) ==
    LET got == getTableDataBuffer(bufs, e.table)
        buf == got.data[e.table]
        block == TranslatedBlock(e, buf, EventVersion(version))
        bytes == BlockBytes(block) - BlockBytes(buf.block)
        appended == Len(block.sign) - Len(buf.block.sign)
        put == [got EXCEPT !.data[e.table] =
                   [buf EXCEPT !.block = block,
                               !.origin = @ \o Repeat(pos, appended)]]
    IN add(put, BlockRows(block), BlockBytes(block), Len(e.rows), bytes)

----------------------------------------------------------------------------
(* The source: its tables (sets of rows with distinct keys), and the       *)
(* events that are valid for them                                          *)

EmptyTable == {}
Present(tab) == {r[1] : r \in tab}
RowOf(tab, k) == CHOOSE r \in tab : r[1] = k

\* the pairs <<pre, post>> of an Update event's rows, applied in order
RECURSIVE ApplyPairs(_, _, _)
ApplyPairs(tab, rows, index) ==
    IF index > Len(rows) THEN tab
    ELSE ApplyPairs((tab \ {rows[index]}) \cup {rows[index + 1]}, rows, index + 2)

\* the source table after an event
ApplyToTable(tab, e) ==
    IF e.type = "Write" THEN tab \cup Range(e.rows)
    ELSE IF e.type = "Delete" THEN tab \ Range(e.rows)
    ELSE IF e.type = "Update" THEN ApplyPairs(tab, e.rows, 1)
    ELSE tab

IsRowEvent(e) == e.type \in {"Write", "Update", "Delete"}

ApplyToSource(src, e) ==
    IF IsRowEvent(e) THEN [src EXCEPT ![e.table] = ApplyToTable(@, e)] ELSE src

\* the source tables at binlog position n
RECURSIVE SourceAt(_, _, _)
SourceAt(init, log, n) ==
    IF n = 0 THEN init ELSE ApplyToSource(SourceAt(init, log, n - 1), log[n])

RowEvent(type, table, rows) == [type |-> type, table |-> table, rows |-> rows, valid |-> TRUE]

\* the numbers of rows (of pairs, for an Update) an event of the alphabet carries
OneRow == {1}
OneOrTwoRows == {1, 2}

\* INSERT of one or two rows with keys the table does not hold
WriteEvents(table, tab, keys, vals, counts) ==
    LET free == keys \ Present(tab)
    IN {RowEvent("Write", table, <<Row(p[1], p[2])>>) :
            p \in {q \in free \X vals : 1 \in counts}}
       \cup {RowEvent("Write", table, <<Row(p[1], p[3]), Row(p[2], p[4])>>) :
                p \in {q \in free \X free \X vals \X vals : q[1] < q[2] /\ 2 \in counts}}

\* DELETE of one or two rows the table holds
DeleteEvents(table, tab, keys, counts) ==
    LET held == {r \in tab : r[1] \in keys}
    IN {RowEvent("Delete", table, <<r>>) : r \in {x \in held : 1 \in counts}}
       \cup {RowEvent("Delete", table, <<p[1], p[2]>>) :
                p \in {q \in held \X held : q[1][1] < q[2][1] /\ 2 \in counts}}

\* the pairs <<pre, post>> one UPDATE can make of a row the table holds, other than
\* the rows with the keys `done` the statement has already updated: the post-image
\* differs from the pre-image and its key is the old key or a key the table lacks
UpdatePairs(tab, keys, done) ==
    {<<p[1], Row(p[2], p[3])>> :
        p \in {q \in {r \in tab : r[1] \in keys \ done} \X keys \X Vals :
                  /\ q[2] = q[1][1] \/ q[2] \notin Present(tab)
                  /\ Row(q[2], q[3]) # q[1]}}

\* UPDATE of one row, or of two rows one after the other
UpdateEvents(table, tab, keys, counts) ==
    {RowEvent("Update", table, <<pair[1], pair[2]>>) :
        pair \in {p \in UpdatePairs(tab, keys, {}) : 1 \in counts}}
    \cup UNION {
        {RowEvent("Update", table, <<first[1], first[2], second[1], second[2]>>) :
            second \in UpdatePairs(ApplyPairs(tab, <<first[1], first[2]>>, 1), keys,
                                   {first[2][1]})} :
        first \in {p \in UpdatePairs(tab, keys, {}) : 2 \in counts}}

\* the row events that are valid at the end of the binary log
RowEvents(src, keys, vals, counts) ==
    UNION {WriteEvents(t, src[t], keys, vals, counts) \cup DeleteEvents(t, src[t], keys, counts)
               \cup UpdateEvents(t, src[t], keys, counts) : t \in Tables}

----------------------------------------------------------------------------
(* State shared by both specifications *)

NoCommit == [kind |-> "none", pos |-> 0, applied |-> 0, pending |-> 0]

\* no DDL has been run for the current event
NoDDL == [run |-> FALSE, database |-> "", error |-> ""]

\* the history variables: applied is the position after the last event whose
\* effects have been applied by the running thread, commit describes the last
\* metadata commit, prev_max_version is the largest version assigned to a row
\* event by an earlier run of the thread, ddl describes the DDL run for the current
\* event (the current database of its query context, the error code it raised),
\* deadline is the deadline of the read that has just timed out (0 when none has)
InitHist ==
    [applied |-> 0, commit |-> NoCommit, prev_max_version |-> 0, ddl |-> NoDDL, deadline |-> 0]

\* prepareSynchronized has not been entered: opened_transaction is its local, attempt
\* counts the iterations of its retry loop, ops lists what the current iteration has
\* done, copied counts the rows the dump has copied, error is the exception being
\* handled, started counts the calls of startBinlogDump and started_at is the position
\* given to the last one, stop_calls and joins count the calls of stopSynchronization
\* and of join
InitPrep ==
    [opened_transaction |-> FALSE, attempt |-> 0, ops |-> <<>>, copied |-> 0, error |-> "",
     started |-> 0, started_at |-> 0, dump_cancelled |-> FALSE, stop_calls |-> 0, joins |-> 0]

InitState ==
    /\ binlog = <<>>
    /\ persisted = [exists |-> FALSE, pos |-> 0, version |-> 0]
    /\ store = <<>>
    /\ store_ddl = {}
    /\ metadata = [pos |-> 0, version |-> 0]
    /\ client_pos = 0
    /\ event = NoEvent
    /\ buffers = EmptyBuffers
    /\ elapsed = 0
    /\ exception = ""
    /\ session = 0
    /\ sync_quit = FALSE
    /\ prep = InitPrep
    /\ hist = InitHist

\* no server has been asked
NoPreflight == [variables |-> <<>>, version |-> "", result |-> <<>>]

InitCommon ==
    /\ InitState
    /\ preflight = NoPreflight

\* the client delivers the event at position client_pos + 1: the event the
\* binary log holds there, or, at the end of the log, a new event of `fresh`
Deliver(e, fresh, max) ==
    /\ client_pos' = client_pos + 1
    /\ IF client_pos < Len(binlog)
       THEN e = binlog[client_pos + 1] /\ UNCHANGED binlog
       ELSE /\ Len(binlog) < max
            /\ e \in fresh
            /\ binlog' = Append(binlog, e)

\* onEvent on a row event e read at position pos
OnRowEvent(e, pos) ==
    /\ buffers' = onRowEvent(buffers, e, metadata.version, pos)
    /\ metadata' = [metadata EXCEPT !.version = NextVersion(@)]

----------------------------------------------------------------------------
(* SpecRows: the event translator on every valid sequence of row events    *)
(* of a table that starts empty                                            *)

InitRows ==
    /\ InitCommon
    /\ src_init = [t \in Tables |-> EmptyTable]
    /\ pc = "translate"

RowsAlphabet == RowEvents(SourceAt(src_init, binlog, Len(binlog)), Keys, Vals, OneOrTwoRows)

Translate(type) ==
    /\ pc = "translate"
    /\ \E e \in {x \in RowsAlphabet : x.type = type} :
        /\ Deliver(e, RowsAlphabet, MaxRowEvents)
        /\ event' = e
        /\ OnRowEvent(e, client_pos + 1)
    /\ hist' = [hist EXCEPT !.applied = client_pos + 1]
    /\ UNCHANGED <<src_init, persisted, store, store_ddl, pc, elapsed, exception, session>>
    /\ UNCHANGED <<sync_quit, prep, preflight>>

TranslateWrite == Translate("Write")
TranslateUpdate == Translate("Update")
TranslateDelete == Translate("Delete")

NextRows == TranslateWrite \/ TranslateUpdate \/ TranslateDelete

SpecRows == InitRows /\ [][NextRows]_vars

----------------------------------------------------------------------------
(* Spec: the sync thread                                                   *)

\* the settings read by the sync loop
max_flush_data_time == 2
max_rows_in_buffer == 2
max_bytes_in_buffer == 40
max_rows_in_buffers == 3
max_bytes_in_buffers == 50

\* cap of the modelled stopwatch: anything above max_flush_data_time behaves alike
ElapsedCap == max_flush_data_time + 1
\* UInt64 arithmetic, at the width the model checker's integers allow
WordModulus == 2 ^ 30

\* the keys the sync thread's binary log uses, and the values its INSERTs carry
\* (its UPDATEs set any value of Vals)
SyncKeys == {1, 2}
SyncInserted == {1}

\* the target database and the source database the thread is configured with
database_name == "target"
mysql_database_name == "source"

\* the binlog events other than row events: Query events (a DDL that parses, a DDL
\* that raises a syntax error), a heartbeat and an event of another type
Query(valid, schema) ==
    [type |-> "Query", table |-> "", rows |-> <<>>, valid |-> valid, schema |-> schema]
Heartbeat == [type |-> "Heartbeat", table |-> "", rows |-> <<>>, valid |-> TRUE]
OtherEvent == [type |-> "Other", table |-> "", rows |-> <<>>, valid |-> TRUE]

SyncAlphabet ==
    RowEvents(SourceAt(src_init, binlog, Len(binlog)), SyncKeys, SyncInserted, OneOrTwoRows)
        \cup {Query(TRUE, mysql_database_name), Query(FALSE, mysql_database_name),
              Heartbeat, OtherEvent}

\* longest binary log the sync loop specification reads
MaxLoopEvents == 2

\* the events of the sync loop specification: those above, and a DDL of another schema
LoopAlphabet == SyncAlphabet \cup {Query(TRUE, "other")}

\* the rows the snapshot dump inserts: the ordinary columns of every source row;
\* the materialized sign and version columns take their defaults
DumpSign == 1
DumpVersion == 0
RECURSIVE DumpRows(_, _)
DumpRows(table_name, tab) ==
    IF tab = {} THEN <<>>
    ELSE LET r == CHOOSE x \in tab : \A y \in tab : x[1] <= y[1]
         IN <<[table |-> table_name, k |-> r[1], v |-> r[2], sign |-> DumpSign,
               version |-> DumpVersion, pos |-> 0]>> \o DumpRows(table_name, tab \ {r})
RECURSIVE DumpAll(_, _)
DumpAll(src, tables) ==
    IF tables = {} THEN <<>>
    ELSE LET t == CHOOSE x \in tables : TRUE
         IN DumpRows(t, src[t]) \o DumpAll(src, tables \ {t})

Init ==
    /\ InitCommon
    /\ src_init = [t \in Tables |-> {Row(1, 1)}]
    /\ pc = "prepare"

\* MaterializeMetadata::transaction(position, body) when body succeeds: the rows
\* body inserted and the metadata record become durable together
TransactionCommit(position, rows) ==
    /\ store' = store \o rows
    /\ persisted' = [exists |-> TRUE, pos |-> position, version |-> metadata.version]

\* faulty variant: the exception is logged and not recorded on the database
FailUnrecorded(what) ==
    /\ pc' = "stopped"
    /\ exception' = ""
    /\ event' = NoEvent
    /\ elapsed' = 0

\* the thread leaves synchronization() through catch (...): setException; the
\* event and the watch of the loop are gone
Fail(what) ==
    /\ pc' = "stopped"
    /\ exception' = what
    /\ event' = NoEvent
    /\ elapsed' = 0

\* faulty variant: the counter outlives the thread's run and is not re-derived
CarriedOverVersion == metadata.version

\* the version counter a new MaterializeMetadata object starts from: the one recorded
\* in the .metadata file
LoadedVersion == persisted.version

\* prepareSynchronized, first run: no metadata file, every table needs dumping; the
\* dump is committed at the snapshot position, then the binlog dump is started
PrepareDump ==
    /\ pc = "prepare"
    /\ ~persisted.exists
    /\ metadata' = [pos |-> 0, version |-> 0]
    /\ store' = DumpAll(src_init, Tables)
    /\ persisted' = [exists |-> TRUE, pos |-> 0, version |-> 0]
    /\ client_pos' = 0
    /\ buffers' = EmptyBuffers
    /\ elapsed' = 0
    /\ pc' = "read"
    /\ hist' = [hist EXCEPT !.applied = 0,
                            !.commit = [kind |-> "dump", pos |-> 0, applied |-> 0, pending |-> 0]]
    /\ UNCHANGED <<binlog, src_init, store_ddl, event, exception, session>>
    /\ UNCHANGED <<sync_quit, prep, preflight>>

\* prepareSynchronized with a metadata file: nothing to dump, the binlog dump is
\* started at the recorded position
PrepareLoad ==
    /\ pc = "prepare"
    /\ persisted.exists
    /\ metadata' = [pos |-> persisted.pos, version |-> LoadedVersion]
    /\ client_pos' = persisted.pos
    /\ buffers' = EmptyBuffers
    /\ elapsed' = 0
    /\ pc' = "read"
    /\ hist' = [hist EXCEPT !.applied = persisted.pos]
    /\ UNCHANGED <<binlog, src_init, persisted, store, store_ddl, event, exception, session>>
    /\ UNCHANGED <<sync_quit, prep, preflight>>

\* prepareSynchronized throws an error other than a connection failure
PrepareFails ==
    /\ pc = "prepare"
    /\ Fail("prepare")
    /\ UNCHANGED <<binlog, src_init, persisted, store, store_ddl, metadata, client_pos,
                   buffers, session, hist>>
    /\ UNCHANGED <<sync_quit, prep, preflight>>

\* std::max(UInt64(1), max_flush_time - watch.elapsedMilliseconds())
ReadDeadline(watch) == Max(1, (max_flush_data_time - watch) % WordModulus)
Capped(t) == IF t > ElapsedCap THEN ElapsedCap ELSE t

\* client.readOneBinlogEvent returns an event within the deadline
ReadEventOf(alphabet, max) ==
    /\ pc = "read"
    /\ ~sync_quit
    /\ \E e \in alphabet \cup Range(binlog) :
        /\ Deliver(e, alphabet, max)
        /\ event' = e
    /\ \E dt \in {0, 1} : elapsed' = Capped(elapsed + dt)
    /\ pc' = "event"
    /\ hist' = [hist EXCEPT !.commit = NoCommit, !.ddl = NoDDL, !.deadline = 0]
    /\ UNCHANGED <<src_init, persisted, store, store_ddl, metadata, buffers, exception,
                   session>>
    /\ UNCHANGED <<sync_quit, prep, preflight>>

ReadEvent == ReadEventOf(SyncAlphabet, MaxEvents)
ReadLoopEvent == ReadEventOf(LoopAlphabet, MaxLoopEvents)

\* client.readOneBinlogEvent returns nothing: the deadline, computed from the watch
\* as it reads when the loop iteration starts, has passed
ReadTimeout ==
    /\ pc = "read"
    /\ ~sync_quit
    /\ event' = NoEvent
    /\ \E before \in {0, 1}, extra \in {0, 1} :
        LET watch == Capped(elapsed + before)
            deadline == ReadDeadline(watch)
        IN /\ elapsed' = Capped(watch + deadline + extra)
           /\ hist' = [hist EXCEPT !.commit = NoCommit, !.ddl = NoDDL, !.deadline = deadline]
    /\ pc' = "check"
    /\ UNCHANGED <<binlog, src_init, persisted, store, store_ddl, metadata, client_pos,
                   buffers, exception, session>>
    /\ UNCHANGED <<sync_quit, prep, preflight>>

\* client.readOneBinlogEvent throws: the connection is lost
ReadFails ==
    /\ pc = "read"
    /\ ~sync_quit
    /\ Fail("connection")
    /\ UNCHANGED <<binlog, src_init, persisted, store, store_ddl, metadata, client_pos,
                   buffers, session, hist>>
    /\ UNCHANGED <<sync_quit, prep, preflight>>

\* faulty variant: the position held by the metadata object, not the client's
StaleFlushPosition == metadata.pos

\* the position flushBuffersData hands to the metadata transaction
FlushPosition == client_pos

\* flushBuffersData when Buffers::commit succeeds
FlushCommits(kind) ==
    /\ TransactionCommit(FlushPosition, commitRows(buffers))
    /\ metadata' = [metadata EXCEPT !.pos = FlushPosition]
    /\ buffers' = commitOk(buffers)
    /\ hist' = [hist EXCEPT !.deadline = 0,
                            !.commit = [kind |-> kind, pos |-> FlushPosition,
                                        applied |-> hist.applied,
                                        pending |-> Len(commitRows(buffers))]]

\* flushBuffersData when an insert of Buffers::commit throws: the transaction
\* makes nothing durable, the exception leaves the loop
FlushThrows ==
    /\ buffers' = commitFailed(buffers)
    /\ Fail("flush")
    /\ UNCHANGED <<persisted, store, metadata, hist>>

\* onEvent, row events
OnWriteRowsEvent ==
    /\ pc = "event" /\ event.type = "Write"
    /\ OnRowEvent(event, client_pos)
    /\ hist' = [hist EXCEPT !.applied = client_pos]
    /\ pc' = "check"
    /\ UNCHANGED <<binlog, src_init, persisted, store, store_ddl, client_pos, event,
                   elapsed, exception, session>>
    /\ UNCHANGED <<sync_quit, prep, preflight>>

OnUpdateRowsEvent ==
    /\ pc = "event" /\ event.type = "Update"
    /\ ~UpdateThrows(event.rows)
    /\ OnRowEvent(event, client_pos)
    /\ hist' = [hist EXCEPT !.applied = client_pos]
    /\ pc' = "check"
    /\ UNCHANGED <<binlog, src_init, persisted, store, store_ddl, client_pos, event,
                   elapsed, exception, session>>
    /\ UNCHANGED <<sync_quit, prep, preflight>>

OnDeleteRowsEvent ==
    /\ pc = "event" /\ event.type = "Delete"
    /\ OnRowEvent(event, client_pos)
    /\ hist' = [hist EXCEPT !.applied = client_pos]
    /\ pc' = "check"
    /\ UNCHANGED <<binlog, src_init, persisted, store, store_ddl, client_pos, event,
                   elapsed, exception, session>>
    /\ UNCHANGED <<sync_quit, prep, preflight>>

\* onEvent, row events: the translation throws, before the version is incremented
\* (getTableDataBuffer finds no table) or after (a column type writeFieldsToColumn
\* does not support, an odd number of rows in an Update)
OnRowEventThrows ==
    /\ pc = "event" /\ IsRowEvent(event)
    /\ \E version \in {metadata.version, NextVersion(metadata.version)} :
           metadata' = [metadata EXCEPT !.version = version]
    /\ Fail("translate")
    /\ UNCHANGED <<binlog, src_init, persisted, store, store_ddl, client_pos, buffers,
                   session, hist>>
    /\ UNCHANGED <<sync_quit, prep, preflight>>

\* onEvent, MYSQL_QUERY_EVENT: the flush that precedes the DDL
OnQueryEventFlush ==
    /\ pc = "event" /\ event.type = "Query"
    /\ FlushCommits("query")
    /\ pc' = "ddl"
    /\ UNCHANGED <<binlog, src_init, store_ddl, client_pos, event, elapsed, exception, session>>
    /\ UNCHANGED <<sync_quit, prep, preflight>>

OnQueryEventFlushThrows ==
    /\ pc = "event" /\ event.type = "Query"
    /\ FlushThrows
    /\ UNCHANGED <<binlog, src_init, store_ddl, client_pos, session>>
    /\ UNCHANGED <<sync_quit, prep, preflight>>

\* String event_database = query_event.schema == mysql_database_name ? database_name : ""
EventDatabase(schema) == IF schema = mysql_database_name THEN database_name ELSE ""

\* the error codes the execution of the event's DDL can raise
DDLErrors(e) == IF e.valid THEN {"OTHER"} ELSE {"SYNTAX_ERROR", "OTHER"}

\* faulty variant: the test of the error code is inverted
RethrownUnlessOther(code) == code = "SYNTAX_ERROR"

\* if (exception.code() != ErrorCodes::SYNTAX_ERROR) throw
Rethrown(code) == code # "SYNTAX_ERROR"

\* onEvent, MYSQL_QUERY_EVENT: tryToExecuteQuery runs the DDL
ExecuteDDL ==
    /\ pc = "ddl" /\ event.valid
    /\ store_ddl' = store_ddl \cup {client_pos}
    /\ hist' = [hist EXCEPT !.applied = client_pos,
                            !.ddl = [run |-> TRUE, database |-> EventDatabase(event.schema),
                                     error |-> ""]]
    /\ pc' = "check"
    /\ UNCHANGED <<binlog, src_init, persisted, store, metadata, client_pos, event,
                   buffers, elapsed, exception, session>>
    /\ UNCHANGED <<sync_quit, prep, preflight>>

\* the DDL raises an error that the handler logs and swallows
ExecuteDDLSyntaxError ==
    /\ pc = "ddl"
    /\ \E code \in DDLErrors(event) :
        /\ ~Rethrown(code)
        /\ hist' = [hist EXCEPT !.applied = client_pos,
                                !.ddl = [run |-> TRUE, database |-> EventDatabase(event.schema),
                                         error |-> code]]
    /\ pc' = "check"
    /\ UNCHANGED <<binlog, src_init, persisted, store, store_ddl, metadata, client_pos,
                   event, buffers, elapsed, exception, session>>
    /\ UNCHANGED <<sync_quit, prep, preflight>>

\* the DDL raises an error that the handler rethrows
ExecuteDDLThrows ==
    /\ pc = "ddl"
    /\ \E code \in DDLErrors(event) :
        /\ Rethrown(code)
        /\ hist' = [hist EXCEPT !.ddl = [run |-> TRUE, database |-> EventDatabase(event.schema),
                                         error |-> code]]
    /\ Fail("ddl")
    /\ UNCHANGED <<binlog, src_init, persisted, store, store_ddl, metadata, client_pos,
                   buffers, session>>
    /\ UNCHANGED <<sync_quit, prep, preflight>>

\* onEvent, heartbeats and events of other types: nothing to do
OnHeartbeatEvent ==
    /\ pc = "event" /\ event.type = "Heartbeat"
    /\ hist' = [hist EXCEPT !.applied = client_pos]
    /\ pc' = "check"
    /\ UNCHANGED <<binlog, src_init, persisted, store, store_ddl, metadata, client_pos,
                   event, buffers, elapsed, exception, session>>
    /\ UNCHANGED <<sync_quit, prep, preflight>>

OnOtherEvent ==
    /\ pc = "event" /\ event.type = "Other"
    /\ hist' = [hist EXCEPT !.applied = client_pos]
    /\ pc' = "check"
    /\ UNCHANGED <<binlog, src_init, persisted, store, store_ddl, metadata, client_pos,
                   event, buffers, elapsed, exception, session>>
    /\ UNCHANGED <<sync_quit, prep, preflight>>

\* the condition under which the loop iteration restarts the watch
ShouldFlush ==
    \/ elapsed > max_flush_data_time
    \/ checkThresholds(buffers, max_rows_in_buffer, max_bytes_in_buffer,
                       max_rows_in_buffers, max_bytes_in_buffers)

\* end of the loop iteration: neither the time nor a threshold asks for a flush
CheckNoFlush ==
    /\ pc = "check"
    /\ ~ShouldFlush
    /\ pc' = "read"
    /\ event' = NoEvent
    /\ hist' = [hist EXCEPT !.deadline = 0]
    /\ UNCHANGED <<binlog, src_init, persisted, store, store_ddl, metadata, client_pos,
                   buffers, elapsed, exception, session>>
    /\ UNCHANGED <<sync_quit, prep, preflight>>

\* the watch is restarted, the buffers hold nothing
CheckRestartWatch ==
    /\ pc = "check"
    /\ ShouldFlush
    /\ buffers.data = <<>>
    /\ elapsed' = 0
    /\ pc' = "read"
    /\ event' = NoEvent
    /\ hist' = [hist EXCEPT !.deadline = 0]
    /\ UNCHANGED <<binlog, src_init, persisted, store, store_ddl, metadata, client_pos,
                   buffers, exception, session>>
    /\ UNCHANGED <<sync_quit, prep, preflight>>

\* the watch is restarted and the buffers are flushed
CheckFlush ==
    /\ pc = "check"
    /\ ShouldFlush
    /\ buffers.data # <<>>
    /\ elapsed' = 0
    /\ FlushCommits(IF elapsed > max_flush_data_time THEN "time" ELSE "threshold")
    /\ pc' = "read"
    /\ event' = NoEvent
    /\ UNCHANGED <<binlog, src_init, store_ddl, client_pos, exception, session>>
    /\ UNCHANGED <<sync_quit, prep, preflight>>

CheckFlushThrows ==
    /\ pc = "check"
    /\ ShouldFlush
    /\ buffers.data # <<>>
    /\ FlushThrows
    /\ UNCHANGED <<binlog, src_init, store_ddl, client_pos, session>>
    /\ UNCHANGED <<sync_quit, prep, preflight>>

\* the state a new run of the thread starts from: nothing in memory survives
RestartedAt(entry) ==
    /\ session < MaxRestarts
    /\ session' = session + 1
    /\ pc' = entry
    /\ metadata' = [pos |-> 0, version |-> 0]
    /\ client_pos' = 0
    /\ event' = NoEvent
    /\ buffers' = EmptyBuffers
    /\ elapsed' = 0
    /\ exception' = ""
    /\ sync_quit' = FALSE
    /\ prep' = InitPrep
    /\ UNCHANGED preflight
    /\ hist' = [applied |-> 0, commit |-> NoCommit, ddl |-> NoDDL, deadline |-> 0,
                prev_max_version |-> Max(hist.prev_max_version, metadata.version)]
    /\ UNCHANGED <<binlog, src_init, persisted, store, store_ddl>>

Restarted == RestartedAt("prepare")

\* the server crashes while the thread runs, and is started again
CrashAndRestart ==
    /\ pc \in {"read", "event", "ddl", "check"}
    /\ Restarted

\* the operator restarts the database after the thread has stopped on an error
RestartAfterError ==
    /\ pc = "stopped"
    /\ Restarted

Next ==
    \/ PrepareDump \/ PrepareLoad \/ PrepareFails
    \/ ReadEvent \/ ReadTimeout \/ ReadFails
    \/ OnWriteRowsEvent \/ OnUpdateRowsEvent \/ OnDeleteRowsEvent \/ OnRowEventThrows
    \/ OnQueryEventFlush \/ OnQueryEventFlushThrows
    \/ ExecuteDDL \/ ExecuteDDLSyntaxError \/ ExecuteDDLThrows
    \/ OnHeartbeatEvent \/ OnOtherEvent
    \/ CheckNoFlush \/ CheckRestartWatch \/ CheckFlush \/ CheckFlushThrows
    \/ CrashAndRestart \/ RestartAfterError

Spec == Init /\ [][Next]_vars

\* SpecLoop: one run of the thread, from the dump to the end of the sync loop
NextLoop ==
    \/ PrepareDump \/ PrepareFails
    \/ ReadLoopEvent \/ ReadTimeout \/ ReadFails
    \/ OnWriteRowsEvent \/ OnUpdateRowsEvent \/ OnDeleteRowsEvent \/ OnRowEventThrows
    \/ OnQueryEventFlush \/ OnQueryEventFlushThrows
    \/ ExecuteDDL \/ ExecuteDDLSyntaxError \/ ExecuteDDLThrows
    \/ OnHeartbeatEvent \/ OnOtherEvent
    \/ CheckNoFlush \/ CheckRestartWatch \/ CheckFlush \/ CheckFlushThrows

SpecLoop == Init /\ [][NextLoop]_vars

----------------------------------------------------------------------------
(* SpecReplay: the event translator with commits, and with the simulated   *)
(* loss of a position commit: the rows of a flush are visible, the         *)
(* position and the version recorded are those of the commit before, and   *)
(* the new run of the thread replays the range                             *)

\* longest binary log the replay specification reads
MaxReplayEvents == 2

\* DELETEs of one row, INSERTs and UPDATEs of one or two rows
ReplayAlphabet ==
    LET src == SourceAt(src_init, binlog, Len(binlog))
    IN UNION {WriteEvents(t, src[t], Keys, SyncInserted, OneOrTwoRows)
                \cup DeleteEvents(t, src[t], Keys, OneRow)
                \cup UpdateEvents(t, src[t], Keys, OneOrTwoRows) : t \in Tables}

ReplayTranslate ==
    /\ pc = "translate"
    /\ \E e \in ReplayAlphabet \cup Range(binlog) :
        /\ Deliver(e, ReplayAlphabet, MaxReplayEvents)
        /\ event' = e
        /\ OnRowEvent(e, client_pos + 1)
    /\ UNCHANGED <<src_init, persisted, store, store_ddl, pc, elapsed, exception, session, hist>>
    /\ UNCHANGED <<sync_quit, prep, preflight>>

\* flushBuffersData
ReplayCommit ==
    /\ pc = "translate"
    /\ buffers.data # <<>>
    /\ TransactionCommit(FlushPosition, commitRows(buffers))
    /\ metadata' = [metadata EXCEPT !.pos = FlushPosition]
    /\ buffers' = commitOk(buffers)
    /\ event' = NoEvent
    /\ UNCHANGED <<binlog, src_init, store_ddl, pc, client_pos, elapsed, exception, session,
                   hist>>
    /\ UNCHANGED <<sync_quit, prep, preflight>>

\* flushBuffersData whose rows become visible while its position commit is lost,
\* followed by a new run of the thread that starts from the metadata file
ReplayLostCommit ==
    /\ pc = "translate"
    /\ buffers.data # <<>>
    /\ session < MaxRestarts
    /\ session' = session + 1
    /\ store' = store \o commitRows(buffers)
    /\ metadata' = [pos |-> persisted.pos, version |-> LoadedVersion]
    /\ client_pos' = persisted.pos
    /\ buffers' = EmptyBuffers
    /\ event' = NoEvent
    /\ UNCHANGED <<binlog, src_init, persisted, store_ddl, pc, elapsed, exception, hist>>
    /\ UNCHANGED <<sync_quit, prep, preflight>>

NextReplay == ReplayTranslate \/ ReplayCommit \/ ReplayLostCommit

SpecReplay == InitRows /\ [][NextReplay]_vars

----------------------------------------------------------------------------
(* SpecStop: prepareSynchronized step by step (the retry loop, the dump    *)
(* block by block, its failures), the sync loop on a short binary log, and *)
(* stopSynchronization called from the database at any moment              *)

\* attempts of the prepare retry loop in one run of the thread
MaxAttempts == 2
\* calls of stopSynchronization in one run of the thread
MaxStopCalls == 2
\* longest binary log this specification reads
MaxStopEvents == 1

\* the exceptions of the prepare phase: mysqlxx::ConnectionFailed, and any other
PrepErrors == {"ConnectionFailed", "Other"}

InitStop ==
    /\ InitCommon
    /\ src_init = [t \in Tables |-> {Row(1, 1), Row(2, 1)}]
    /\ pc = "p_loop"

\* the rows SELECT * FROM the source tables returns, one row a block
DumpBlocks == DumpAll(src_init, Tables)

Did(op) == prep' = [prep EXCEPT !.ops = Append(@, op)]

\* while (!isCancelled()) of prepareSynchronized, cancelled: return {}
PrepLoopExit ==
    /\ pc = "p_loop"
    /\ sync_quit
    /\ pc' = "done"
    /\ UNCHANGED <<binlog, src_init, persisted, store, store_ddl, metadata, client_pos,
                   event, buffers, elapsed, exception, session, sync_quit, prep, hist>>
    /\ UNCHANGED preflight

\* connection = pool.get(); opened_transaction = false;
PrepGetConnection ==
    /\ pc = "p_loop"
    /\ ~sync_quit
    /\ prep.attempt < MaxAttempts
    /\ prep' = [prep EXCEPT !.attempt = @ + 1, !.ops = <<"get">>, !.copied = 0,
                            !.error = "", !.opened_transaction = FALSE]
    /\ pc' = "p_metadata"
    /\ UNCHANGED <<binlog, src_init, persisted, store, store_ddl, metadata, client_pos,
                   event, buffers, elapsed, exception, session, sync_quit, hist>>
    /\ UNCHANGED preflight

\* pool.get() throws: opened_transaction keeps the value the attempt before left
PrepGetConnectionFails ==
    /\ pc = "p_loop"
    /\ ~sync_quit
    /\ prep.attempt < MaxAttempts
    /\ \E kind \in PrepErrors :
        prep' = [prep EXCEPT !.attempt = @ + 1, !.ops = <<>>, !.copied = 0, !.error = kind]
    /\ pc' = "p_catch"
    /\ UNCHANGED <<binlog, src_init, persisted, store, store_ddl, metadata, client_pos,
                   event, buffers, elapsed, exception, session, sync_quit, hist>>
    /\ UNCHANGED preflight

\* MaterializeMetadata(...) without a .metadata file: the snapshot transaction is
\* opened, the position is the master's, every table needs dumping
PrepInitMetadata ==
    /\ pc = "p_metadata"
    /\ ~persisted.exists
    /\ metadata' = [pos |-> 0, version |-> 0]
    /\ prep' = [prep EXCEPT !.opened_transaction = TRUE, !.ops = Append(@, "BEGIN")]
    /\ pc' = "p_clean"
    /\ UNCHANGED <<binlog, src_init, persisted, store, store_ddl, client_pos,
                   event, buffers, elapsed, exception, session, sync_quit, hist>>
    /\ UNCHANGED preflight

\* MaterializeMetadata(...) with a .metadata file: need_dumping_tables is empty
PrepLoadMetadata ==
    /\ pc = "p_metadata"
    /\ persisted.exists
    /\ metadata' = [pos |-> persisted.pos, version |-> LoadedVersion]
    /\ Did("load")
    /\ pc' = "p_commit"
    /\ UNCHANGED <<binlog, src_init, persisted, store, store_ddl, client_pos,
                   event, buffers, elapsed, exception, session, sync_quit, hist>>
    /\ UNCHANGED preflight

\* MaterializeMetadata(...) throws, before or after it has opened the transaction
PrepMetadataFails ==
    /\ pc = "p_metadata"
    /\ \E kind \in PrepErrors, opened \in (IF persisted.exists THEN {FALSE} ELSE {FALSE, TRUE}) :
        prep' = [prep EXCEPT !.error = kind, !.opened_transaction = opened,
                             !.ops = IF opened THEN Append(@, "BEGIN") ELSE @]
    /\ pc' = "p_catch"
    /\ UNCHANGED <<binlog, src_init, persisted, store, store_ddl, metadata, client_pos,
                   event, buffers, elapsed, exception, session, sync_quit, hist>>
    /\ UNCHANGED preflight

\* cleanOutdatedTables: DROP TABLE for every table of the database
PrepCleanOutdated ==
    /\ pc = "p_clean"
    /\ store' = <<>>
    /\ Did("DROP")
    /\ pc' = "p_table"
    /\ UNCHANGED <<binlog, src_init, persisted, store_ddl, metadata, client_pos,
                   event, buffers, elapsed, exception, session, sync_quit, hist>>
    /\ UNCHANGED preflight

\* dumpDataForTables, the next table: create it and open its streams
PrepCreateTable ==
    /\ pc = "p_table"
    /\ ~sync_quit
    /\ Did("CREATE")
    /\ pc' = "p_copy"
    /\ UNCHANGED <<binlog, src_init, persisted, store, store_ddl, metadata, client_pos,
                   event, buffers, elapsed, exception, session, sync_quit, hist>>
    /\ UNCHANGED preflight

\* copyData: one block read and written
PrepCopyBlock ==
    /\ pc = "p_copy"
    /\ ~sync_quit
    /\ prep.copied < Len(DumpBlocks)
    /\ store' = Append(store, DumpBlocks[prep.copied + 1])
    /\ prep' = [prep EXCEPT !.copied = @ + 1]
    /\ UNCHANGED <<binlog, src_init, persisted, store_ddl, metadata, client_pos, pc,
                   event, buffers, elapsed, exception, session, sync_quit, hist>>
    /\ UNCHANGED preflight

\* copyData: the input is exhausted; there is no further table
PrepCopyDone ==
    /\ pc = "p_copy"
    /\ prep.copied = Len(DumpBlocks)
    /\ pc' = "p_dump_end"
    /\ UNCHANGED <<binlog, src_init, persisted, store, store_ddl, metadata, client_pos,
                   event, buffers, elapsed, exception, session, sync_quit, prep, hist>>
    /\ UNCHANGED preflight

\* is_cancelled() is true between two tables or at a block boundary: the loops end
\* and dumpDataForTables returns
PrepDumpCancelled ==
    /\ pc \in {"p_table", "p_copy"}
    /\ sync_quit
    /\ pc = "p_copy" => prep.copied < Len(DumpBlocks)
    /\ prep' = [prep EXCEPT !.dump_cancelled = TRUE]
    /\ pc' = "p_dump_end"
    /\ UNCHANGED <<binlog, src_init, persisted, store, store_ddl, metadata, client_pos,
                   event, buffers, elapsed, exception, session, sync_quit, hist>>
    /\ UNCHANGED preflight

\* metadata.transaction: its body has returned, the .metadata file is committed
PrepCommitMetadata ==
    /\ pc = "p_dump_end"
    /\ persisted' = [exists |-> TRUE, pos |-> metadata.pos, version |-> metadata.version]
    /\ Did("commit_metadata")
    /\ pc' = "p_commit"
    /\ UNCHANGED <<binlog, src_init, store, store_ddl, metadata, client_pos,
                   event, buffers, elapsed, exception, session, sync_quit, hist>>
    /\ UNCHANGED preflight

\* if (opened_transaction) connection->query("COMMIT").execute();
PrepCommitMySQL ==
    /\ pc = "p_commit"
    /\ prep' = [prep EXCEPT !.ops = IF prep.opened_transaction THEN Append(@, "COMMIT") ELSE @]
    /\ pc' = "p_start"
    /\ UNCHANGED <<binlog, src_init, persisted, store, store_ddl, metadata, client_pos,
                   event, buffers, elapsed, exception, session, sync_quit, hist>>
    /\ UNCHANGED preflight

\* faulty variant: the binlog dump is requested from the start of the log
PrepStartFromOrigin ==
    /\ pc = "p_start"
    /\ prep' = [prep EXCEPT !.ops = Append(@, "start"), !.started = @ + 1, !.started_at = 0]
    /\ client_pos' = 0
    /\ buffers' = EmptyBuffers
    /\ elapsed' = 0
    /\ pc' = "read"
    /\ hist' = [hist EXCEPT !.applied = 0]
    /\ UNCHANGED <<binlog, src_init, persisted, store, store_ddl, metadata,
                   event, exception, session, sync_quit>>
    /\ UNCHANGED preflight

\* client.connect(); client.startBinlogDump(...); return metadata; the sync loop
\* starts with a new watch and empty buffers
PrepStartBinlogDump ==
    /\ pc = "p_start"
    /\ prep' = [prep EXCEPT !.ops = Append(@, "start"), !.started = @ + 1,
                            !.started_at = metadata.pos]
    /\ client_pos' = metadata.pos
    /\ buffers' = EmptyBuffers
    /\ elapsed' = 0
    /\ pc' = "read"
    /\ hist' = [hist EXCEPT !.applied = metadata.pos]
    /\ UNCHANGED <<binlog, src_init, persisted, store, store_ddl, metadata,
                   event, exception, session, sync_quit>>
    /\ UNCHANGED preflight

\* a step after the metadata object is built throws: a query of the cleaning or of
\* the dump, the commit of the .metadata file, COMMIT, connect or startBinlogDump
PrepThrows ==
    /\ pc \in {"p_clean", "p_table", "p_copy", "p_dump_end", "p_commit", "p_start"}
    /\ \E kind \in PrepErrors : prep' = [prep EXCEPT !.error = kind]
    /\ pc' = "p_catch"
    /\ UNCHANGED <<binlog, src_init, persisted, store, store_ddl, metadata, client_pos,
                   event, buffers, elapsed, exception, session, sync_quit, hist>>
    /\ UNCHANGED preflight

\* catch (...): ROLLBACK if opened_transaction; a connection failure goes on to the
\* sleep, any other exception leaves prepareSynchronized
PrepCatch ==
    /\ pc = "p_catch"
    /\ prep' = [prep EXCEPT !.ops = IF prep.opened_transaction THEN Append(@, "ROLLBACK") ELSE @]
    /\ IF prep.error = "ConnectionFailed"
       THEN pc' = "p_sleep" /\ UNCHANGED <<event, elapsed, exception>>
       ELSE Fail("prepare")
    /\ UNCHANGED <<binlog, src_init, persisted, store, store_ddl, metadata, client_pos,
                   buffers, session, sync_quit, hist>>
    /\ UNCHANGED preflight

\* catch (...): the ROLLBACK query throws, its exception leaves prepareSynchronized
PrepRollbackThrows ==
    /\ pc = "p_catch"
    /\ prep.opened_transaction
    /\ Did("ROLLBACK")
    /\ Fail("rollback")
    /\ UNCHANGED <<binlog, src_init, persisted, store, store_ddl, metadata, client_pos,
                   buffers, session, sync_quit, hist>>
    /\ UNCHANGED preflight

\* sleepForMilliseconds(settings->max_wait_time_when_mysql_unavailable)
PrepSleep ==
    /\ pc = "p_sleep"
    /\ Did("sleep")
    /\ pc' = "p_loop"
    /\ UNCHANGED <<binlog, src_init, persisted, store, store_ddl, metadata, client_pos,
                   event, buffers, elapsed, exception, session, sync_quit, hist>>
    /\ UNCHANGED preflight

\* while (!isCancelled()) of synchronization, cancelled: the thread ends, its
\* buffers are destroyed
LoopExit ==
    /\ pc = "read"
    /\ sync_quit
    /\ pc' = "done"
    /\ buffers' = EmptyBuffers
    /\ UNCHANGED <<binlog, src_init, persisted, store, store_ddl, metadata, client_pos,
                   event, elapsed, exception, session, sync_quit, prep, hist>>
    /\ UNCHANGED preflight

\* faulty variant: every call flips the flag and joins
StopSynchronizationToggle ==
    /\ prep.stop_calls < MaxStopCalls
    /\ sync_quit' = ~sync_quit
    /\ prep' = [prep EXCEPT !.stop_calls = @ + 1, !.joins = @ + 1]
    /\ UNCHANGED <<binlog, src_init, persisted, store, store_ddl, metadata, client_pos, pc,
                   event, buffers, elapsed, exception, session, hist>>
    /\ UNCHANGED preflight

\* stopSynchronization, called by the database while the thread object exists
StopSynchronization ==
    /\ prep.stop_calls < MaxStopCalls
    /\ IF ~sync_quit
       THEN /\ sync_quit' = TRUE
            /\ prep' = [prep EXCEPT !.stop_calls = @ + 1, !.joins = @ + 1]
       ELSE /\ sync_quit' = sync_quit
            /\ prep' = [prep EXCEPT !.stop_calls = @ + 1]
    /\ UNCHANGED <<binlog, src_init, persisted, store, store_ddl, metadata, client_pos, pc,
                   event, buffers, elapsed, exception, session, hist>>
    /\ UNCHANGED preflight

StopAlphabet ==
    {e \in RowEvents(SourceAt(src_init, binlog, Len(binlog)), SyncKeys, SyncInserted, OneRow) :
        e.type = "Delete"} \cup {Heartbeat}

ReadStopEvent == ReadEventOf(StopAlphabet, MaxStopEvents)

\* the database is started again after the thread has ended
StopRestart ==
    /\ pc \in {"done", "stopped"}
    /\ RestartedAt("p_loop")

NextStopThread ==
    \/ PrepLoopExit \/ PrepGetConnection \/ PrepGetConnectionFails
    \/ PrepInitMetadata \/ PrepLoadMetadata \/ PrepMetadataFails
    \/ PrepCleanOutdated \/ PrepCreateTable \/ PrepCopyBlock \/ PrepCopyDone
    \/ PrepDumpCancelled \/ PrepCommitMetadata \/ PrepCommitMySQL \/ PrepStartBinlogDump
    \/ PrepThrows \/ PrepCatch \/ PrepRollbackThrows \/ PrepSleep
    \/ ReadStopEvent \/ ReadTimeout \/ ReadFails \/ LoopExit
    \/ OnDeleteRowsEvent \/ OnHeartbeatEvent
    \/ CheckNoFlush \/ CheckRestartWatch \/ CheckFlush \/ CheckFlushThrows

NextStop == NextStopThread \/ StopSynchronization \/ StopRestart

\* the thread is scheduled: every call it makes returns, so it takes its next step
SpecStop == InitStop /\ [][NextStop]_vars /\ WF_vars(NextStopThread)

----------------------------------------------------------------------------
(* SpecPreflight: checkVariableAndGetVersion, the check startSynchronization *)
(* makes before it starts the thread, against every server of a small set    *)

\* the variables the check query asks for, the value it requires of each (compared
\* with upper(Value)), and the message for each
Variables == {"log_bin", "binlog_format", "binlog_row_image", "default_authentication_plugin"}
RequiredValue ==
    [v \in Variables |->
        CASE v = "log_bin" -> "ON"
          [] v = "binlog_format" -> "ROW"
          [] v = "binlog_row_image" -> "FULL"
          [] v = "default_authentication_plugin" -> "MYSQL_NATIVE_PASSWORD"]
variables_error_message ==
    [v \in Variables |->
        CASE v = "log_bin" -> "log_bin = 'ON'"
          [] v = "binlog_format" -> "binlog_format='ROW'"
          [] v = "binlog_row_image" -> "binlog_row_image='FULL'"
          [] v = "default_authentication_plugin" ->
                "default_authentication_plugin='mysql_native_password'"]

\* the values a server can hold for each variable
ServerValues ==
    [v \in Variables |->
        CASE v = "log_bin" -> {"ON", "on", "OFF"}
          [] v = "binlog_format" -> {"ROW", "row", "MIXED"}
          [] v = "binlog_row_image" -> {"FULL", "full", "MINIMAL"}
          [] v = "default_authentication_plugin" ->
                {"mysql_native_password", "caching_sha2_password"}]
\* what SELECT version() returns; "" stands for a result without a row
ServerVersions == {"5.7.30", "8.0.21", ""}

\* upper(Value) of MySQL
Upper(value) ==
    CASE value = "on" -> "ON"
      [] value = "row" -> "ROW"
      [] value = "full" -> "FULL"
      [] value = "mysql_native_password" -> "MYSQL_NATIVE_PASSWORD"
      [] value = "caching_sha2_password" -> "CACHING_SHA2_PASSWORD"
      [] OTHER -> value

\* the rows SHOW VARIABLES WHERE ... returns: the names of the variables that hold
\* the required value
check_query(server) == {v \in Variables : Upper(server[v]) = RequiredValue[v]}

\* MySQLBlockInputStream::read: a result without a row gives the empty block, which
\* has no column
ReadBlock(names, rows) ==
    IF rows = {} THEN [columns |-> {}, rows |-> {}] ELSE [columns |-> names, rows |-> rows]

\* the number of rows the check query returns from a server that meets every requirement
RequiredRows == 4

checkVariableAndGetVersion(server, version) ==
    LET variables_block == ReadBlock({"Variable_name", "Value"}, check_query(server))
        version_block == ReadBlock({"version"}, IF version = "" THEN {} ELSE {version})
    IN IF variables_block.columns = {} \/ Cardinality(variables_block.rows) # RequiredRows
       THEN IF "Variable_name" \notin variables_block.columns
            THEN [thrown |-> "NOT_FOUND_COLUMN_IN_BLOCK", message |-> "", requires |-> {},
                  version |-> ""]
            ELSE [thrown |-> "ILLEGAL_MYSQL_VARIABLE",
                  message |-> "Illegal MySQL variables, the MaterializeMySQL engine requires ",
                  requires |-> {variables_error_message[v] :
                                    v \in Variables \ variables_block.rows},
                  version |-> ""]
       ELSE IF version_block.columns = {} \/ Cardinality(version_block.rows) # 1
            THEN [thrown |-> "LOGICAL_ERROR", message |-> "LOGICAL ERROR: cannot get mysql version.",
                  requires |-> {}, version |-> ""]
            ELSE [thrown |-> "", message |-> "", requires |-> {},
                  version |-> CHOOSE x \in version_block.rows : TRUE]

InitPreflight ==
    /\ InitState
    /\ src_init = [t \in Tables |-> EmptyTable]
    /\ pc = "preflight"
    /\ \E server \in [Variables -> UNION {ServerValues[v] : v \in Variables}],
          version \in ServerVersions :
        /\ \A v \in Variables : server[v] \in ServerValues[v]
        /\ preflight = [variables |-> server, version |-> version, result |-> <<>>]

\* startSynchronization: checkVariableAndGetVersion(pool.get())
StartSynchronization ==
    /\ pc = "preflight"
    /\ preflight' = [preflight EXCEPT
                        !.result = checkVariableAndGetVersion(preflight.variables, preflight.version)]
    /\ pc' = "preflight_done"
    /\ UNCHANGED <<binlog, src_init, persisted, store, store_ddl, metadata, client_pos,
                   event, buffers, elapsed, exception, session, sync_quit, prep, hist>>

NextPreflight == StartSynchronization

SpecPreflight == InitPreflight /\ [][NextPreflight]_vars

----------------------------------------------------------------------------
(* Properties of the event translator *)

\* the block of a table's buffer (the empty block when the table has no buffer)
BlockOf(bufs, table_name) ==
    IF table_name \in DOMAIN bufs.data THEN bufs.data[table_name].block ELSE SampleBlock

\* every column of the block has the same number of rows
Rectangular(block) ==
    /\ \A c \in DOMAIN block.cols : Len(block.cols[c]) = Len(block.sign)
    /\ Len(block.version) = Len(block.sign)

\* rows from + 1 .. of a rectangular block, as records
RowsAfter(block, from) ==
    [i \in 1..(Len(block.sign) - from) |->
        [k |-> block.cols[1][from + i], v |-> block.cols[2][from + i],
         sign |-> block.sign[from + i], version |-> block.version[from + i]]]

Encoded(row, sign, version) == [k |-> row[1], v |-> row[2], sign |-> sign, version |-> version]

\* what an Update event is to append: per pair the post-image, preceded by the
\* cancelled pre-image when a sorting-key column differs
RECURSIVE ExpectedUpdateRows(_, _, _)
ExpectedUpdateRows(rows, version, index) ==
    IF index > Len(rows) THEN <<>>
    ELSE (IF rows[index][1] = rows[index + 1][1]
             THEN <<Encoded(rows[index + 1], 1, version)>>
             ELSE <<Encoded(rows[index], -1, version), Encoded(rows[index + 1], 1, version)>>)
         \o ExpectedUpdateRows(rows, version, index + 2)

\* C8: an Update event appends, per pair, the post-image with sign +1 when no
\* sorting-key column differs, and otherwise the pre-image with sign -1 followed by
\* the post-image with sign +1; all rows of the event carry one version, and the
\* user columns and the sign and version columns grow by the same number of rows
C8_UpdateAppends ==
    [][(client_pos' = client_pos + 1 /\ event'.type = "Update") =>
          LET before == BlockOf(buffers, event'.table)
              after == BlockOf(buffers', event'.table)
          IN /\ Rectangular(after)
             /\ RowsAfter(after, Len(before.sign))
                    = ExpectedUpdateRows(event'.rows, metadata'.version, 1)
             /\ \A i \in 1..Len(before.sign) :
                    RowsAfter(after, 0)[i] = RowsAfter(before, 0)[i]]_vars

\* an Update event with a key-preserving pair and a key-changing pair has been translated
C8_Witness ==
    /\ event.type = "Update"
    /\ Len(event.rows) = 4
    /\ event.rows[1][1] = event.rows[2][1]
    /\ event.rows[3][1] # event.rows[4][1]
    /\ Len(BlockOf(buffers, event.table).sign) >= 4

\* C9: a Write (a Delete) event with n rows appends exactly n rows in row order,
\* each with sign +1 (-1) and the event's single version, the previous version plus one
C9_WriteDeleteAppends ==
    [][(client_pos' = client_pos + 1 /\ event'.type \in {"Write", "Delete"}) =>
          LET before == BlockOf(buffers, event'.table)
              after == BlockOf(buffers', event'.table)
              sign == IF event'.type = "Write" THEN 1 ELSE -1
          IN /\ Rectangular(after)
             /\ RowsAfter(after, Len(before.sign))
                    = [i \in 1..Len(event'.rows) |->
                          Encoded(event'.rows[i], sign, metadata.version + 1)]
             /\ \A i \in 1..Len(before.sign) :
                    RowsAfter(after, 0)[i] = RowsAfter(before, 0)[i]]_vars

\* a Write of one row followed by the Delete of that row: two buffered rows with
\* signs +1 and -1 and versions V1 and V1 + 1
C9_Witness ==
    /\ Len(binlog) = 2
    /\ binlog[1].type = "Write" /\ binlog[2].type = "Delete"
    /\ binlog[1].rows = binlog[2].rows /\ Len(binlog[1].rows) = 1
    /\ LET b == BlockOf(buffers, binlog[1].table)
       IN /\ b.sign = <<1, -1>>
          /\ b.version = <<b.version[1], b.version[1] + 1>>

\* the rows appended so far: those in the target store, then those in the buffers
AppendedRows == store \o AllBufferRows(buffers.data, DOMAIN buffers.data)

RowsOfKey(rows, t, k) == {i \in DOMAIN rows : rows[i].table = t /\ rows[i].k = k}
\* the rows of a key that carry the key's highest version
TopRows(rows, t, k) ==
    {i \in RowsOfKey(rows, t, k) : \A j \in RowsOfKey(rows, t, k) : rows[j].version <= rows[i].version}

\* the logical state read from the rows agrees with the table on key k: the key
\* exists, with the value of its highest-version row, iff that row's sign is +1
ReadsAs(rows, t, k, tab) ==
    IF k \notin Present(tab)
    THEN \A i \in TopRows(rows, t, k) : rows[i].sign = -1
    ELSE /\ RowsOfKey(rows, t, k) # {}
         /\ \A i \in TopRows(rows, t, k) : rows[i].sign = 1 /\ rows[i].v = RowOf(tab, k)[2]

\* the last appended of the key's highest-version rows
LastTopRow(rows, t, k) ==
    CHOOSE i \in TopRows(rows, t, k) : \A j \in TopRows(rows, t, k) : j <= i

\* as ReadsAs, with the last appended row read when several rows carry the
\* key's highest version
ReadsLastAs(rows, t, k, tab) ==
    IF k \notin Present(tab)
    THEN RowsOfKey(rows, t, k) = {} \/ rows[LastTopRow(rows, t, k)].sign = -1
    ELSE /\ RowsOfKey(rows, t, k) # {}
         /\ rows[LastTopRow(rows, t, k)].sign = 1
         /\ rows[LastTopRow(rows, t, k)].v = RowOf(tab, k)[2]

----------------------------------------------------------------------------
(* Properties of the sync thread *)

BufferedRows == AllBufferRows(buffers.data, DOMAIN buffers.data)

\* C1 as stated: after every successful metadata commit of the sync loop (time
\* flush, threshold flush, the flush of a Query event) the persisted position is
\* the position the client reported after the last event whose effects had been
\* applied when the commit was made
C1_CommitAtLastApplied ==
    hist.commit.kind \in {"time", "threshold", "query"} =>
        /\ persisted.pos = hist.commit.pos
        /\ hist.commit.pos = hist.commit.applied

\* C2: the persisted position is at or after the position of every event whose
\* rows are visible in the target store, in every state (after crashes and error
\* exits too), and it never decreases
C2_PersistedCoversStore ==
    /\ [](\A i \in DOMAIN store : store[i].pos <= persisted.pos)
    /\ [][persisted'.pos >= persisted.pos]_vars

\* after a restart, rows of an event read in the new run are visible in the store
C2_Witness ==
    /\ session >= 1
    /\ \E i \in DOMAIN store : store[i].pos = persisted.pos /\ store[i].pos >= 2

\* C3 as stated: the flush a Query event performs while rows are pending persists
\* the position immediately before that event, and leaves the buffers empty
C3_FlushBeforeDDLPosition ==
    (pc = "ddl" /\ hist.commit.kind = "query" /\ hist.commit.pending > 0) =>
        /\ persisted.pos = client_pos - 1
        /\ buffers.data = <<>>

\* the number of rows a row event appends
AppendedCount(e) ==
    IF e.type = "Update" THEN Len(ExpectedUpdateRows(e.rows, 0, 1)) ELSE Len(e.rows)

\* the Query events the running thread has flushed for
FlushedQueries ==
    {q \in 1..client_pos : binlog[q].type = "Query" /\ (q < client_pos \/ pc # "event")}

\* C4: when the DDL of a Query event is about to be executed, the buffer set is
\* empty and the rows of every earlier row event are in the target store; the rows
\* of later row events are only in buffers created after the DDL; rows are
\* appended in the order the client delivers the events
C4_DDLAfterEarlierRows ==
    /\ pc = "ddl" =>
          /\ buffers.data = <<>>
          /\ \A i \in 1..(client_pos - 1) :
                IsRowEvent(binlog[i]) =>
                    Cardinality({j \in DOMAIN store : store[j].pos = i}) = AppendedCount(binlog[i])
    /\ \A q \in FlushedQueries : \A i \in DOMAIN BufferedRows : BufferedRows[i].pos > q
    /\ \A i, j \in DOMAIN AppendedRows : i < j => AppendedRows[i].pos <= AppendedRows[j].pos

\* a DDL was executed after the rows of an earlier event were flushed, and a later
\* event's rows are buffered
C4_Witness ==
    \E q \in store_ddl :
        /\ \E i \in DOMAIN store : store[i].pos > 0 /\ store[i].pos < q
        /\ \E i \in DOMAIN BufferedRows : BufferedRows[i].pos > q

\* C5: each Write, Update or Delete event that onEvent handles increases the
\* version by exactly one whatever its number of rows; the other events leave it
\* unchanged; the version never decreases while the thread runs
C5_VersionPerRowEvent ==
    [][/\ (pc = "event" /\ pc' \in {"check", "ddl"}) =>
              metadata'.version = metadata.version + (IF IsRowEvent(event) THEN 1 ELSE 0)
       /\ (pc = "ddl" /\ pc' = "check") => metadata'.version = metadata.version
       /\ session' = session => metadata'.version >= metadata.version]_vars

\* an event with two rows has been handled, and so has a Query event
C5_Witness ==
    /\ pc = "check"
    /\ event.type = "Update" /\ Len(event.rows) = 4
    /\ metadata.version = 2
    /\ \E i \in 1..client_pos : binlog[i].type = "Query"

\* C6 as stated: every version assigned to a row event after a restart is greater
\* than every version assigned to a row event before the restart
C6_VersionsAboveAllEarlier ==
    session >= 1 =>
        \A i \in DOMAIN BufferedRows : BufferedRows[i].version > hist.prev_max_version

\* C6 amended: every version assigned to a row event (after a restart as before)
\* is greater than the persisted version and than the version of every row
\* committed to the target store
C6_VersionsAboveCommitted ==
    \A i \in DOMAIN BufferedRows :
        /\ BufferedRows[i].version > persisted.version
        /\ \A j \in DOMAIN store : BufferedRows[i].version > store[j].version

\* after a restart a row event is buffered while the store holds rows of events
C6_Witness ==
    /\ session >= 1
    /\ BufferedRows # <<>>
    /\ \E j \in DOMAIN store : store[j].version >= 1
    /\ hist.prev_max_version > persisted.version

RECURSIVE SignSum(_, _, _, _)
SignSum(rows, t, k, n) ==
    IF n = 0 THEN 0
    ELSE (IF rows[n].table = t /\ rows[n].k = k THEN rows[n].sign ELSE 0)
         + SignSum(rows, t, k, n - 1)

\* the number of pairs of an Update event's rows that keep sorting key k
RECURSIVE KeptInPairs(_, _, _)
KeptInPairs(rows, k, index) ==
    IF index > Len(rows) THEN 0
    ELSE (IF rows[index][1] = k /\ rows[index + 1][1] = k THEN 1 ELSE 0)
         + KeptInPairs(rows, k, index + 2)

\* the number of Update pairs among the first n events that keep sorting key k
RECURSIVE KeptPairs(_, _, _)
KeptPairs(t, k, n) ==
    IF n = 0 THEN 0
    ELSE (IF binlog[n].type = "Update" /\ binlog[n].table = t
             THEN KeptInPairs(binlog[n].rows, k, 1) ELSE 0)
         + KeptPairs(t, k, n - 1)

\* C7 as stated: after a commit, for every sorting key the sum of the signs of
\* the rows with that key in the target store is 0 or 1
C7_SignSumZeroOrOne ==
    \A t \in Tables : \A k \in Keys : SignSum(store, t, k, Len(store)) \in {0, 1}

\* C7 amended: after a commit, for every sorting key K the sum of the signs of the
\* rows with key K in the target store, less the number of committed Update pairs
\* that left sorting key K unchanged, is 0 or 1
C7_SignSumLessKeptPairs ==
    \A t \in Tables : \A k \in Keys :
        SignSum(store, t, k, Len(store)) - KeptPairs(t, k, persisted.pos) \in {0, 1}

\* the store holds the rows of a key-preserving Update and of a Delete
C7_Witness ==
    /\ \E k \in Keys : KeptPairs("t1", k, persisted.pos) > 0
    /\ \E i \in DOMAIN store : store[i].sign = -1

----------------------------------------------------------------------------
(* Replay *)

\* the buffers after the first n events of the binary log are translated once,
\* from empty buffers and version 0, without a flush
RECURSIVE OnceBuffers(_)
OnceBuffers(n) ==
    IF n = 0 THEN EmptyBuffers ELSE onRowEvent(OnceBuffers(n - 1), binlog[n], n - 1, n)
OnceRows(n) == LET bufs == OnceBuffers(n) IN AllBufferRows(bufs.data, DOMAIN bufs.data)

\* the logical state read from rows: per sorting key the value of the highest-version
\* row, kept iff its sign is +1 (<<v>> when kept, <<>> when not); `top` reads every
\* row of the highest version, `last` the last appended of them
Kept(row) == IF row.sign = 1 THEN <<row.v>> ELSE <<>>
LogicalState(rows) ==
    [t \in Tables |-> [k \in Keys |->
        LET top == TopRows(rows, t, k)
        IN [top |-> {Kept(rows[i]) : i \in top},
            last |-> IF top = {} THEN <<>>
                     ELSE Kept(rows[CHOOSE i \in top : \A j \in top : j <= i])]]]

\* the position of the last event whose rows are visible in the store
RECURSIVE LastStorePos(_)
LastStorePos(n) == IF n = 0 THEN 0 ELSE Max(store[n].pos, LastStorePos(n - 1))

\* C11: replaying a range of row events a second time, with the version counter
\* restarted from the last committed value, yields the same logical state as
\* applying the range once; this holds at the end of the replay and at every event
\* of it
C11_ReplaySameLogicalState ==
    LET once == OnceRows(Max(client_pos, LastStorePos(Len(store))))
        rows == AppendedRows
    IN LogicalState(rows) = LogicalState(once)

\* a range of two events whose rows were visible has been replayed to its end, and
\* the rows of the replay are visible as well
C11_Witness ==
    /\ session >= 1
    /\ client_pos = LastStorePos(Len(store))
    /\ client_pos >= persisted.pos + 2
    /\ \E i, j \in DOMAIN AppendedRows :
           i < j /\ AppendedRows[i] = AppendedRows[j] /\ AppendedRows[i].sign = -1

----------------------------------------------------------------------------
(* The sync loop's flush decision *)

\* a flush was attempted in the step: it committed, or it threw
FlushAttempted ==
    \/ hist'.commit.kind \in {"time", "threshold"}
    \/ pc' = "stopped" /\ exception' = "flush"

\* C12: at the end of a loop iteration a flush is performed iff the buffer set is
\* not empty and the time since the last restart of the watch exceeds
\* max_flush_data_time or one of the four counters has reached its threshold; a
\* Write event whose rows reach max_rows_in_buffer is followed by exactly one
\* flush, which persists the position reported after that event
C12_FlushIffDue ==
    [][(pc = "check" /\ session' = session) =>
          /\ FlushAttempted <=>
                /\ buffers.data # <<>>
                /\ \/ elapsed > max_flush_data_time
                   \/ buffers.max_block_rows >= max_rows_in_buffer
                   \/ buffers.max_block_bytes >= max_bytes_in_buffer
                   \/ buffers.total_blocks_rows >= max_rows_in_buffers
                   \/ buffers.total_blocks_bytes >= max_bytes_in_buffers
          /\ (event.type = "Write" /\ Len(event.rows) >= max_rows_in_buffer /\ pc' = "read") =>
                /\ persisted'.pos = client_pos
                /\ store' = store \o BufferedRows
                /\ buffers'.data = <<>>]_vars

\* a Write event of max_rows_in_buffer rows, read before the flush time had passed,
\* has just been flushed at the position after it
C12_Witness ==
    /\ pc = "read"
    /\ hist.commit.kind = "threshold"
    /\ hist.commit.pos = client_pos /\ persisted.pos = client_pos
    /\ binlog[client_pos].type = "Write"
    /\ Len(binlog[client_pos].rows) = max_rows_in_buffer

----------------------------------------------------------------------------
(* Errors of the streaming phase *)

\* C13: an error of the streaming phase that is not a DDL syntax error ends the
\* loop with the exception recorded on the database, the persisted position and
\* the rows visible in the store being those of the last successful commit (a
\* failed flush persists nothing); the stopped thread neither retries nor commits
C13_ErrorStopsAtLastCommit ==
    /\ [](pc = "stopped" => exception # "")
    /\ [][/\ (pc \in {"read", "event", "ddl", "check"} /\ pc' = "stopped") =>
                /\ exception' \in {"connection", "translate", "flush", "ddl"}
                /\ persisted' = persisted /\ store' = store /\ store_ddl' = store_ddl
          /\ (pc = "stopped" /\ session' = session) =>
                /\ pc' = "stopped" /\ exception' = exception
                /\ persisted' = persisted /\ store' = store /\ store_ddl' = store_ddl]_vars

\* a flush has failed after an earlier flush of this run had committed: the rows
\* translated since are neither visible nor covered by the persisted position
C13_Witness ==
    /\ pc = "stopped" /\ exception = "flush"
    /\ persisted.pos >= 1 /\ persisted.pos < client_pos
    /\ \E i \in DOMAIN store : store[i].pos = persisted.pos
    /\ \E n \in (persisted.pos + 1)..client_pos : IsRowEvent(binlog[n])
    /\ session = 0

\* C14: a DDL that raises a syntax error is swallowed, nothing is recorded and the
\* loop goes on; a DDL that raises another error ends the loop with the error
\* recorded; the DDL runs in the target database iff the event's schema is the
\* configured source database, and in the default scope otherwise
C14_DDLErrorsAndScope ==
    [][(pc = "ddl" /\ session' = session) =>
          /\ hist'.ddl.run
          /\ hist'.ddl.database = database_name <=> event.schema = mysql_database_name
          /\ hist'.ddl.database # database_name => hist'.ddl.database = ""
          /\ hist'.ddl.error = "SYNTAX_ERROR" =>
                pc' = "check" /\ exception' = "" /\ store_ddl' = store_ddl
          /\ hist'.ddl.error = "OTHER" => pc' = "stopped" /\ exception' = "ddl"
          /\ hist'.ddl.error = "" => pc' = "check" /\ store_ddl' = store_ddl \cup {client_pos}
          /\ ~event.valid => hist'.ddl.error # ""]_vars

\* after a DDL whose syntax error was swallowed the same run of the thread has
\* executed a DDL of another schema in the default scope
C14_Witness ==
    /\ session = 0 /\ pc = "check"
    /\ \E i \in 1..(client_pos - 1) : binlog[i].type = "Query" /\ ~binlog[i].valid
    /\ event.type = "Query" /\ event.schema # mysql_database_name
    /\ hist.ddl.run /\ hist.ddl.database = "" /\ hist.ddl.error = ""
    /\ client_pos \in store_ddl

----------------------------------------------------------------------------
(* Cancellation and the prepare phase *)

Issued(op) == op \in Range(prep.ops)

\* C15: when the cancellation flag is found set while the snapshot dump runs (between
\* tables or at a block boundary), the MySQL snapshot transaction is not committed,
\* the metadata transaction is not committed and binlog streaming is not started
C15_CancelledDumpRollsBack ==
    prep.dump_cancelled =>
        /\ ~Issued("COMMIT")
        /\ ~Issued("commit_metadata")
        /\ ~Issued("start")

\* what the steps out of the catch block, out of the sleep and into a new attempt do
PrepareErrorStep ==
    /\ (pc = "p_catch" /\ pc' # "p_catch") =>
        /\ prep.opened_transaction => prep'.ops = Append(prep.ops, "ROLLBACK")
        /\ (Issued("DROP") /\ ~Issued("commit_metadata")) => ~persisted'.exists
        /\ IF prep.error = "ConnectionFailed"
           THEN pc' = "p_sleep" /\ exception' = ""
           ELSE pc' = "stopped" /\ exception' # ""
    /\ (pc = "p_sleep" /\ pc' # "p_sleep") =>
        pc' = "p_loop" /\ prep'.ops = Append(prep.ops, "sleep")
    /\ (pc = "p_loop" /\ pc' = "p_metadata") =>
        prep'.ops = <<"get">> /\ prep'.copied = 0 /\ ~prep'.opened_transaction

\* C16: in the prepare phase a connection failure at any step leads to the rollback
\* of the opened MySQL transaction, then to the sleep and to a new attempt that starts
\* from scratch; any other error rolls the MySQL transaction back, leaves the metadata
\* transaction of an unfinished dump uncommitted, is not retried and ends the thread
\* with the exception recorded
C16_PrepareErrorHandling ==
    [][PrepareErrorStep]_vars

Terminated == pc \in {"done", "stopped"}

\* what cancellation does in one step: raising the flag changes nothing else of the
\* thread and records no exception, the thread that leaves a loop because of the flag
\* ends with no exception recorded, and a call of stopSynchronization that finds the
\* flag raised changes nothing and joins nothing
CancelStep ==
    /\ (~sync_quit /\ sync_quit') =>
        /\ prep'.joins = prep.joins + 1
        /\ UNCHANGED <<pc, exception, persisted, store, metadata, buffers>>
    /\ (pc # "done" /\ pc' = "done") => (sync_quit /\ exception' = "")
    /\ (sync_quit /\ prep'.stop_calls = prep.stop_calls + 1) =>
        /\ prep' = [prep EXCEPT !.stop_calls = @ + 1]
        /\ UNCHANGED <<binlog, src_init, persisted, store, store_ddl, metadata, client_pos,
                       pc, event, buffers, elapsed, exception, session, sync_quit, hist>>

\* C17: once the cancellation flag is raised the thread, whose calls all return,
\* eventually leaves the prepare retry loop or the sync loop and ends; cancellation
\* records no exception, and a second call of stopSynchronization does nothing
C17_CancelTerminates ==
    /\ sync_quit ~> Terminated
    /\ [][CancelStep]_vars

\* the thread has left the sync loop on the flag, and stopSynchronization was called
\* a second time
C17_Witness ==
    /\ pc = "done"
    /\ sync_quit
    /\ exception = ""
    /\ prep.started = 1
    /\ prep.stop_calls = 2
    /\ prep.joins = 1

----------------------------------------------------------------------------
(* The start of binlog streaming *)

\* the attempt has loaded a .metadata file: need_dumping_tables is empty
LoadedAttempt == Issued("load")

\* the step that starts streaming: the first start of this run, at the position the
\* metadata object holds (the recorded one when it was loaded), and, when the attempt
\* has dumped, after the metadata transaction of the dump
StartStep ==
    (pc = "p_start" /\ pc' = "read") =>
        /\ prep.started = 0 /\ prep'.started = 1
        /\ prep'.started_at = metadata.pos
        /\ client_pos' = metadata.pos
        /\ LoadedAttempt => metadata.pos = persisted.pos
        /\ Issued("DROP") => Issued("commit_metadata")

----------------------------------------------------------------------------
(* The time-based flush *)

\* readOneBinlogEvent has just returned without an event
TimedOut == pc = "check" /\ event = NoEvent /\ hist.deadline # 0

\* C19: when rows are buffered and no event arrives, the read waits no longer than
\* max_flush_data_time, and when it returns the watch has reached max_flush_data_time:
\* the flush is attempted now or after one more wait of a millisecond
C19_BufferedRowsFlushedInTime ==
    (TimedOut /\ buffers.data # <<>>) =>
        /\ hist.deadline <= max_flush_data_time
        /\ elapsed >= max_flush_data_time

----------------------------------------------------------------------------
(* The preflight check *)

\* the requirements the server does not meet
Unmet == {v \in Variables : Upper(preflight.variables[v]) # RequiredValue[v]}

\* C20: for every non-empty set of unmet requirements, from one to all four, the
\* check fails with the illegal-variable error whose message lists exactly the unmet
\* requirements; when all four are met it returns the server version
C20_PreflightListsUnmet ==
    pc = "preflight_done" =>
        IF Unmet # {}
        THEN /\ preflight.result.thrown = "ILLEGAL_MYSQL_VARIABLE"
             /\ preflight.result.requires = {variables_error_message[v] : v \in Unmet}
        ELSE preflight.version # "" =>
                /\ preflight.result.thrown = ""
                /\ preflight.result.version = preflight.version

----------------------------------------------------------------------------
(* The counters of the Buffers object *)

\* the sum and the largest of a measure over the buffers of a set of tables
RECURSIVE SumOver(_, _, _)
SumOver(Measure(_), data, tables) ==
    IF tables = {} THEN 0
    ELSE LET t == CHOOSE x \in tables : TRUE
         IN Measure(data[t].block) + SumOver(Measure, data, tables \ {t})
RECURSIVE MaxOver(_, _, _)
MaxOver(Measure(_), data, tables) ==
    IF tables = {} THEN 0
    ELSE LET t == CHOOSE x \in tables : TRUE
         IN Max(Measure(data[t].block), MaxOver(Measure, data, tables \ {t}))

\* the byte counters and the largest row count agree with the buffers
BytesAndMaxMatchBuffers ==
    /\ buffers.total_blocks_bytes = SumOver(BlockBytes, buffers.data, DOMAIN buffers.data)
    /\ buffers.max_block_rows = MaxOver(BlockRows, buffers.data, DOMAIN buffers.data)
    /\ buffers.max_block_bytes = MaxOver(BlockBytes, buffers.data, DOMAIN buffers.data)

\* C21: after any sequence of Write, Update and Delete events since the last flush,
\* total_blocks_rows is the sum of the buffers' row counts, total_blocks_bytes the sum
\* of their byte sizes, and max_block_rows / max_block_bytes the largest row count /
\* byte size of a buffer
C21_CountersMatchBuffers ==
    /\ buffers.total_blocks_rows = SumOver(BlockRows, buffers.data, DOMAIN buffers.data)
    /\ BytesAndMaxMatchBuffers

AllCountersZero ==
    /\ buffers.max_block_rows = 0
    /\ buffers.max_block_bytes = 0
    /\ buffers.total_blocks_rows = 0
    /\ buffers.total_blocks_bytes = 0

\* C22: after every flush of the buffer set, whether it succeeds or fails while a
\* table is written, the buffer set holds no buffer and the four counters are zero:
\* whenever the buffer set is empty the four counters are zero
C22_EmptyBuffersZeroCounters ==
    buffers.data = <<>> => AllCountersZero

----------------------------------------------------------------------------
(* The deadline of the read *)

\* C23: the deadline handed to readOneBinlogEvent is max(1, max_flush_data_time -
\* elapsed) computed without wrap-around: it lies between 1 ms and max_flush_data_time,
\* also when the watch reads more than max_flush_data_time
C23_DeadlineInRange ==
    hist.deadline # 0 => (1 <= hist.deadline /\ hist.deadline <= max_flush_data_time)

----------------------------------------------------------------------------
(* The persisted position and the DDL of a Query event *)

\* the Query events whose DDL parses and has not been executed on the target
PendingDDL ==
    {q \in 1..Len(binlog) :
        binlog[q].type = "Query" /\ binlog[q].valid /\ q \notin store_ddl}

\* C24: when the DDL of a Query event fails with an error other than a syntax error,
\* or the thread stops between the flush before the DDL and the end of the DDL, the
\* persisted position is not past that Query event: a restart delivers the DDL again,
\* and the target schema is never behind the persisted position
C24_PersistedNotPastPendingDDL ==
    /\ pc = "ddl" => persisted.pos < client_pos
    /\ (pc = "stopped" /\ exception = "ddl") => persisted.pos < client_pos
    /\ \A q \in PendingDDL : persisted.pos < q

----------------------------------------------------------------------------
(* The rows of one sorting key *)

\* C25: after any sequence of row events the highest-version row of every sorting key
\* is unique: no event appends a -1 row and a +1 row with the same sorting key and the
\* same version, also not an Update event of which one pair moves a row away from the
\* key and another pair moves a row onto it
C25_TopRowUnique ==
    \A t \in Tables : \A k \in Keys : Cardinality(TopRows(AppendedRows, t, k)) <= 1

----------------------------------------------------------------------------
(* ROLLBACK in the prepare retry loop *)

\* ROLLBACK is issued only by an attempt whose metadata object opened the transaction
RollbackOnlyWhenOpened == Issued("ROLLBACK") => Issued("BEGIN")

\* the handling of a connection failure goes on to the sleep
ConnectionFailureSleeps ==
    (pc = "p_catch" /\ pc' # "p_catch" /\ prep.error = "ConnectionFailed") => pc' = "p_sleep"

\* C26: in the prepare retry loop ROLLBACK is issued only in an attempt in which the
\* metadata initialisation opened a MySQL transaction on the connection of that
\* attempt; an attempt that fails before a transaction is opened issues no ROLLBACK,
\* and a failure of the ROLLBACK does not prevent the sleep and the retry of a
\* connection failure
C26_RollbackOfOwnTransaction ==
    /\ []RollbackOnlyWhenOpened
    /\ [][ConnectionFailureSleeps]_vars

====
